---- MODULE Spec2Model ----
(***************************************************************************)
(* wiki-toc-simple.js: generation of a flat, indented table of contents    *)
(* for a Wiki.js page, its mounting in place of the native widget, and the *)
(* scroll tracker that highlights the current entry.                       *)
(*                                                                         *)
(* Strings are sequences of one-character tokens.  "U4E2D" is a CJK        *)
(* ideograph inside the range \u4e00-\u9fa5 of the source's regular        *)
(* expression.                                                             *)
(***************************************************************************)
EXTENDS Integers, Sequences, FiniteSets, TLC

VARIABLES
    readyState,     \* document.readyState: "loading" or "interactive"
    scriptPc,       \* "start" before the script body ran, then "waiting" or "loaded"
    styleCount,     \* number of <style> blocks appended by addStyles
    config,         \* the config object: [scrollOffset, contentSelector, tocSelector]
    content,        \* whether the page has the content region of the default selector
    hd,             \* the heading elements of the content region, in document order
    native,         \* the native widget: [present, display]
    tocs,           \* the .wiki-toc-simple containers of the document, in document order
    tocHTML,        \* the entries of the markup built by the last generateTOC run
    gen,            \* number of containers created so far
    trackers,       \* one closure per bindScrollEvents() call, in creation order
    updateTarget,   \* index of the tracker window.updateTocElements refers to, 0 if unset
    scrollTop,      \* window.pageYOffset
    rafQueue,       \* trackers whose frame callback is requested for the next frame
    frameCbs,       \* callbacks of the running frame that still have to run
    evalsThisFrame, \* evaluations run by the callbacks of the current frame
    last,           \* the step just taken, see Step
    inText,         \* generateId harness: text argument
    inIndex,        \* generateId harness: index argument
    outId           \* generateId harness: result ("unset" tokens before the call)

vars == <<readyState, scriptPc, styleCount, config, content, hd, native, tocs,
          tocHTML, gen, trackers, updateTarget, scrollTop, rafQueue, frameCbs,
          evalsThisFrame, last, inText, inIndex, outId>>

(***************************************************************************)
(* Bounds of the model.                                                    *)
(***************************************************************************)
MaxHeadings == 3
MaxTrackers == 2
MaxLen == 3
MaxIndex == 1

(***************************************************************************)
(* Characters.                                                             *)
(***************************************************************************)
LowerChars == {"a", "b", "c", "d", "e", "g", "h", "i", "n"}
UpperChars == {"A", "B"}
DigitChars == {"0", "1", "2", "3", "4", "5", "6", "7", "8", "9"}
CjkInRange == {"U4E2D"}
Hyphen == "-"

\* String.prototype.toLowerCase, one character at a time
ToLowerChar(c) ==
    CASE c = "A" -> "a"
      [] c = "B" -> "b"
      [] OTHER -> c

toLowerCase(s) == [i \in 1..Len(s) |-> ToLowerChar(s[i])]

\* the class [\w\u4e00-\u9fa5]: \w is [A-Za-z0-9_]
KeptChar(c) == c \in LowerChars \cup UpperChars \cup DigitChars \cup {"_"} \cup CjkInRange

\* .replace(/[^\w\u4e00-\u9fa5]/g, '-')
ReplaceOthers(s) == [i \in 1..Len(s) |-> IF KeptChar(s[i]) THEN s[i] ELSE Hyphen]

\* .replace(/-+/g, '-')
RECURSIVE CollapseHyphens(_)
CollapseHyphens(s) ==
    IF Len(s) <= 1 THEN s
    ELSE IF s[1] = Hyphen /\ s[2] = Hyphen THEN CollapseHyphens(Tail(s))
    ELSE <<s[1]>> \o CollapseHyphens(Tail(s))

\* .replace(/^-|-$/g, ''): one hyphen at the start, one at the end
StripEnds(s) ==
    LET a == IF s # <<>> /\ Head(s) = Hyphen THEN Tail(s) ELSE s
    IN  IF a # <<>> /\ a[Len(a)] = Hyphen THEN SubSeq(a, 1, Len(a) - 1) ELSE a

\* decimal digits of a natural number (template literal ${index})
RECURSIVE NatToStr(_)
NatToStr(n) ==
    LET d == <<"0", "1", "2", "3", "4", "5", "6", "7", "8", "9">>
    IN  IF n < 10 THEN <<d[n + 1]>> ELSE NatToStr(n \div 10) \o <<d[(n % 10) + 1]>>

HeadingPrefix == <<"h", "e", "a", "d", "i", "n", "g", "-">>

generateId(text, index) ==
    LET id == StripEnds(CollapseHyphens(ReplaceOthers(toLowerCase(text))))
    IN  IF id = <<>> THEN HeadingPrefix \o NatToStr(index) ELSE id

\* String.prototype.trim on the whitespace token " "
RECURSIVE TrimLeft(_)
TrimLeft(s) == IF s # <<>> /\ Head(s) = " " THEN TrimLeft(Tail(s)) ELSE s

RECURSIVE TrimRight(_)
TrimRight(s) ==
    IF s # <<>> /\ s[Len(s)] = " " THEN TrimRight(SubSeq(s, 1, Len(s) - 1)) ELSE s

trim(s) == TrimRight(TrimLeft(s))

(***************************************************************************)
(* The document.                                                           *)
(*   heading  [level, text, id, hasAnchor, anchorFrag, tabset, attached]   *)
(*            tabset: "none", "self" (the heading itself carries .tabset)  *)
(*            or "ancestor" (an ancestor carries it)                      *)
(*            attached: FALSE once the element was taken out of the page   *)
(*   entry    [level, href, text, indent]: one <li>/<a> of the markup      *)
(*   toc      [gen, entries, active, scrollTop, bound]: a mounted          *)
(*            container; bound counts the click listeners of each link     *)
(*   tracker  [ticking, headings, tocLinks, timer]                         *)
(***************************************************************************)
Levels == 1..6

\* heading.offsetTop: the headings of the page are laid out 500px apart
offsetTop(i) == (i - 1) * 500

\* element.offsetTop of heading i of doc: 0 for an element outside the document
elementTop(doc, i) == IF doc[i].attached THEN offsetTop(i) ELSE 0

\* a selector of the config: the default one, or one that no element matches
Selectors == {"default", "nomatch"}

DefaultConfig ==
    [scrollOffset |-> 80, contentSelector |-> "default", tocSelector |-> "default"]

\* document.querySelector(config.contentSelector) finds the content region
ContentFound == content /\ config.contentSelector = "default"

\* document.querySelector(config.tocSelector) finds the native widget n
TocFound(n) == n.present /\ config.tocSelector = "default"

\* geometry of the navigation panel given by the injected style rules
Layout == [panelHeight |-> 60, titleHeight |-> 35, linkHeight |-> 25]

\* a filter that looks at the ancestors of the heading only
isInTabsetAncestorOnly(h) == h.tabset = "ancestor"

\* heading.closest('.tabset'): the element itself or one of its ancestors
isInTabset(h) == h.tabset # "none"

\* Array.from(allHeadings).filter(...): the handles (positions in hd) of the
\* headings of the page that survive
RECURSIVE FilterFrom(_, _)
FilterFrom(hs, i) ==
    IF i > Len(hs) THEN <<>>
    ELSE IF ~hs[i].attached \/ isInTabset(hs[i]) THEN FilterFrom(hs, i + 1)
    ELSE <<i>> \o FilterFrom(hs, i + 1)

FilteredHeadings(hs) == FilterFrom(hs, 1)

\* strategies 1 and 2: heading.id, else the fragment of a[href^="#"]
ExistingId(h) ==
    IF h.id # <<>> THEN h.id
    ELSE IF h.hasAnchor THEN h.anchorFrag
    ELSE <<>>

\* the id the entry of heading h (ordinal index) links to
ResolvedId(h, index) ==
    IF ExistingId(h) # <<>> THEN ExistingId(h) ELSE generateId(trim(h.text), index)

\* a write-back of an id made from the ordinal alone
WrittenBackOrdinal(h, index) ==
    IF ExistingId(h) = <<>> /\ h.id = <<>>
        THEN [h EXCEPT !.id = HeadingPrefix \o NatToStr(index)]
        ELSE h

\* the heading after the loop body: strategy 3 writes the id back
WrittenBack(h, index) ==
    IF ExistingId(h) = <<>> /\ h.id = <<>>
        THEN [h EXCEPT !.id = generateId(trim(h.text), index)]
        ELSE h

\* an indentation counted from level 0
IndentFromZero(level) == level * 12 + 5

Indent(level) == (level - 1) * 12 + 5

Entry(h, index) ==
    [level |-> h.level, href |-> ResolvedId(h, index), text |-> trim(h.text),
     indent |-> Indent(h.level)]

\* position of handle i in the list of handles hs, 0 if absent
PosIn(hs, i) == IF \E k \in 1..Len(hs) : hs[k] = i
                    THEN CHOOSE k \in 1..Len(hs) : hs[k] = i ELSE 0

\* removeExistingTOC without the removal of the old container
ExistingTOCKept(ts) == ts

\* removeExistingTOC, first half: querySelector('.wiki-toc-simple') and remove()
ExistingTOCRemoved(ts) == IF ts # <<>> THEN Tail(ts) ELSE ts

\* removeExistingTOC, second half: originalTOC.style.display = ''
RestoredNative(n) == IF TocFound(n) THEN [n EXCEPT !.display = ""] ELSE n

\* insertTOC: the container goes right before the native widget, which is hidden
InsertedTocs(ts, n, entries, g) ==
    IF TocFound(n)
        THEN ts \o <<[gen |-> g, entries |-> entries, active |-> {}, scrollTop |-> 0,
                      bound |-> 0]>>
        ELSE ts

\* insertTOC without the hiding of the native widget
NativeLeftVisible(n) == n

HiddenNative(n) == IF TocFound(n) THEN [n EXCEPT !.display = "none"] ELSE n

\* bindEvents: one more click listener on every .wiki-toc-link of the document
BoundLinks(ts) == [k \in 1..Len(ts) |-> [ts[k] EXCEPT !.bound = @ + 1]]

\* a lookup that also finds elements taken out of the page
getElementByIdDetached(doc, id) ==
    IF \E i \in 1..Len(doc) : doc[i].id = id /\ id # <<>>
        THEN CHOOSE i \in 1..Len(doc) :
                /\ doc[i].id = id
                /\ \A j \in 1..(i - 1) : doc[j].id # id
        ELSE 0

\* document.getElementById(id): the first element of the page with that id, 0 for
\* null
getElementById(doc, id) ==
    IF \E i \in 1..Len(doc) : doc[i].attached /\ doc[i].id = id /\ id # <<>>
        THEN CHOOSE i \in 1..Len(doc) :
                /\ doc[i].attached /\ doc[i].id = id
                /\ \A j \in 1..(i - 1) : ~(doc[j].attached /\ doc[j].id = id)
        ELSE 0

\* document.querySelectorAll('.wiki-toc-link'): the links of every container
AllTocLinks(ts) == {ts[k].gen : k \in 1..Len(ts)}

\* updateElements: rescan headings and links when the content region is found
updateElements(t, hs, ts) ==
    IF ContentFound
        THEN [t EXCEPT !.headings = FilteredHeadings(hs), !.tocLinks = AllTocLinks(ts)]
        ELSE t

\* bindScrollEvents: a new closure, its lists initialised, its timer armed
NewTracker(hs, ts) ==
    updateElements([ticking |-> FALSE, headings |-> <<>>, tocLinks |-> {},
                    timer |-> TRUE], hs, ts)

(***************************************************************************)
(* The scroll tracker (the closures of bindScrollEvents).                  *)
(***************************************************************************)
\* getCurrentHeading: scan hs[i], hs[i-1], ... for a heading at or above limit;
\* the result <<>> stands for a falsy id ('' or null)
RECURSIVE ScanBack(_, _, _, _)
ScanBack(hs, doc, i, limit) ==
    IF i = 0 THEN (IF Len(hs) > 0 THEN doc[hs[1]].id ELSE <<>>)
    ELSE IF elementTop(doc, hs[i]) <= limit THEN doc[hs[i]].id
    ELSE ScanBack(hs, doc, i - 1, limit)

\* a threshold computed from the offset the script started with
getCurrentHeadingCached(hs, doc, pageY, cfg) ==
    ScanBack(hs, doc, Len(hs), pageY + (DefaultConfig.scrollOffset + 10))

getCurrentHeading(hs, doc, pageY, cfg) ==
    ScanBack(hs, doc, Len(hs), pageY + (cfg.scrollOffset + 10))

\* clearHighlights: remove the marker from the links the tracker holds
clearHighlights(ts, links) ==
    [k \in 1..Len(ts) |-> IF ts[k].gen \in links THEN [ts[k] EXCEPT !.active = {}]
                           ELSE ts[k]]

\* document.querySelector('.wiki-toc-link[href="#id"]'): the places <<k, j>> of the
\* links with that href, and the first of them in document order
LinksTo(ts, id) ==
    {<<k, j>> \in (1..Len(ts)) \X (1..MaxHeadings + 1) :
        j <= Len(ts[k].entries) /\ ts[k].entries[j].href = id}

FirstLink(ts, id) ==
    CHOOSE p \in LinksTo(ts, id) :
        \A q \in LinksTo(ts, id) : p[1] < q[1] \/ (p[1] = q[1] /\ p[2] <= q[2])

Max(a, b) == IF a >= b THEN a ELSE b

Min(a, b) == IF a <= b THEN a ELSE b

\* a scrollTocToVisible that does not clamp the position it requests
scrollTocToVisibleUnclamped(ts, p) ==
    LET c == ts[1]
        containerHeight == Layout.panelHeight
        linkTop == (p[1] - 1) * containerHeight + Layout.titleHeight
                   + (p[2] - 1) * Layout.linkHeight - ts[p[1]].scrollTop
        linkBottom == linkTop + Layout.linkHeight
        isVisible == linkTop >= 0 /\ linkBottom <= containerHeight
    IN  IF isVisible THEN c.scrollTop
        ELSE IF linkTop < 0 THEN c.scrollTop + linkTop - 10
        ELSE c.scrollTop + linkBottom - containerHeight + 10

\* scrollTocToVisible for the link at place p: the new scrollTop of the first
\* container (document.querySelector('.wiki-toc-simple'))
scrollTocToVisible(ts, p) ==
    LET c == ts[1]
        containerHeight == Layout.panelHeight
        scrollHeight == Max(containerHeight,
                            Layout.titleHeight + Len(c.entries) * Layout.linkHeight)
        linkTop == (p[1] - 1) * containerHeight + Layout.titleHeight
                   + (p[2] - 1) * Layout.linkHeight - ts[p[1]].scrollTop
        linkBottom == linkTop + Layout.linkHeight
        isVisible == linkTop >= 0 /\ linkBottom <= containerHeight
        target == IF linkTop < 0 THEN c.scrollTop + linkTop - 10
                  ELSE c.scrollTop + linkBottom - containerHeight + 10
    IN  IF isVisible THEN c.scrollTop
        ELSE Max(0, Min(target, scrollHeight - containerHeight))

\* highlightTocItem
highlightTocItem(ts, links, targetId) ==
    LET cleared == clearHighlights(ts, links)
    IN  IF LinksTo(cleared, targetId) = {} THEN cleared
        ELSE LET p == FirstLink(cleared, targetId)
                 marked == [cleared EXCEPT ![p[1]].active = @ \cup {p[2]}]
             IN  [marked EXCEPT ![1].scrollTop = scrollTocToVisible(marked, p)]

\* the body shared by the frame callback and the initial-highlight timer
Evaluated(ts, t, doc, pageY, cfg) ==
    LET currentId == getCurrentHeading(t.headings, doc, pageY, cfg)
    IN  IF currentId # <<>> THEN highlightTocItem(ts, t.tocLinks, currentId) ELSE ts

\* the record of a step: its operation, the operation before it (kept by the public
\* operations), the native display found by the generateTOC run that just ended or
\* that the remove() follows, whether that run began without a container and whether
\* it mounted one, the evaluating tracker, and for a click the container and the
\* entry clicked, the element found (0 for none), whether the default action was
\* prevented, the number of window.scrollTo calls and the top of the last one
Step(op) ==
    [op |-> op, prev |-> "none", display |-> "", clean |-> FALSE, mounted |-> FALSE,
     tracker |-> 0, container |-> 0, link |-> 0, target |-> 0, prevented |-> FALSE,
     scrolls |-> 0, top |-> 0]

EvalStep(op, k) == [Step(op) EXCEPT !.tracker = k]

(***************************************************************************)
(* generateTOC, as the next-state relation of the variables it touches;    *)
(* op names the caller, for the step record.                               *)
(***************************************************************************)
GenStep(op, found, didMount) ==
    [Step(op) EXCEPT !.prev = last.op, !.display = found, !.clean = (tocs = <<>>),
                     !.mounted = didMount]

generateTOC(op) ==
    LET ts1 == ExistingTOCRemoved(tocs)
        n1 == RestoredNative(native)
        hs == FilteredHeadings(hd)
    IN  IF ~ContentFound \/ hs = <<>>
        THEN /\ tocs' = ts1
             /\ native' = n1
             /\ tocHTML' = <<>>
             /\ last' = GenStep(op, native.display, FALSE)
             /\ UNCHANGED <<hd, gen, trackers, updateTarget>>
        ELSE LET entries == [k \in 1..Len(hs) |-> Entry(hd[hs[k]], k - 1)]
                 hd2 == [i \in 1..Len(hd) |->
                            IF PosIn(hs, i) # 0 THEN WrittenBack(hd[i], PosIn(hs, i) - 1)
                            ELSE hd[i]]
                 ts2 == InsertedTocs(ts1, n1, entries, gen + 1)
             IN  /\ tocHTML' = entries
                 /\ hd' = hd2
                 /\ tocs' = BoundLinks(ts2)
                 /\ native' = HiddenNative(n1)
                 /\ gen' = IF TocFound(n1) THEN gen + 1 ELSE gen
                 /\ trackers' = Append(trackers, NewTracker(hd2, BoundLinks(ts2)))
                 /\ updateTarget' = Len(trackers) + 1
                 /\ last' = GenStep(op, native.display, TocFound(n1))

\* no frame callback is running: another task may run
Idle == frameCbs = <<>>

\* init(): addStyles() and generateTOC()
init ==
    /\ styleCount' = styleCount + 1
    /\ generateTOC("init")

\* a readiness check that never defers
isLoadingNever == FALSE

\* document.readyState === 'loading'
isLoading == readyState = "loading"

\* the script body: the readiness check at the end of the file
ScriptStart ==
    /\ scriptPc = "start"
    /\ IF isLoading
        THEN /\ scriptPc' = "waiting"
             /\ UNCHANGED <<styleCount, hd, native, tocs, tocHTML, gen, trackers,
                            updateTarget, last>>
        ELSE /\ scriptPc' = "loaded"
             /\ init
    /\ UNCHANGED <<readyState, config, content, scrollTop, rafQueue, frameCbs,
                   evalsThisFrame, inText, inIndex, outId>>

\* the DOMContentLoaded listener registered by the script body
DOMContentLoaded ==
    /\ Idle
    /\ readyState = "loading"
    /\ readyState' = "interactive"
    /\ IF scriptPc = "waiting"
        THEN /\ scriptPc' = "loaded"
             /\ init
        ELSE UNCHANGED <<scriptPc, styleCount, hd, native, tocs, tocHTML, gen, trackers,
                         updateTarget, last>>
    /\ UNCHANGED <<config, content, scrollTop, rafQueue, frameCbs, evalsThisFrame,
                   inText, inIndex, outId>>

\* wikiTOCSimple.refresh()
Refresh ==
    /\ Idle
    /\ scriptPc # "start"
    /\ Len(trackers) < MaxTrackers
    /\ generateTOC("refresh")
    /\ UNCHANGED <<readyState, scriptPc, styleCount, config, content, scrollTop,
                   rafQueue, frameCbs, evalsThisFrame, inText, inIndex, outId>>

\* wikiTOCSimple.remove()
Remove ==
    /\ Idle
    /\ scriptPc # "start"
    /\ tocs' = ExistingTOCRemoved(tocs)
    /\ native' = RestoredNative(native)
    /\ last' = [last EXCEPT !.op = "remove", !.prev = last.op, !.tracker = 0]
    /\ UNCHANGED <<readyState, scriptPc, styleCount, config, content, hd, tocHTML, gen,
                   trackers, updateTarget, scrollTop, rafQueue, frameCbs,
                   evalsThisFrame, inText, inIndex, outId>>

\* wikiTOCSimple.updateElements(): window.updateTocElements, when it is set
UpdateElements ==
    /\ Idle
    /\ scriptPc # "start"
    /\ trackers' = IF updateTarget = 0 THEN trackers
                   ELSE [trackers EXCEPT ![updateTarget] = updateElements(@, hd, tocs)]
    /\ last' = [Step("updateElements") EXCEPT !.prev = last.op]
    /\ UNCHANGED <<readyState, scriptPc, styleCount, config, content, hd, native, tocs,
                   tocHTML, gen, updateTarget, scrollTop, rafQueue, frameCbs,
                   evalsThisFrame, inText, inIndex, outId>>

\* the click listener of entry j of container k: every listener bound to the link
\* runs once
Click ==
    /\ Idle
    /\ \E k \in 1..Len(tocs) : \E j \in 1..Len(tocs[k].entries) :
          LET target == getElementById(hd, tocs[k].entries[j].href)
          IN  last' = [Step("click") EXCEPT
                          !.container = k,
                          !.link = j,
                          !.target = target,
                          !.prevented = TRUE,
                          !.scrolls = IF target # 0 THEN tocs[k].bound ELSE 0,
                          !.top = IF target # 0
                                      THEN elementTop(hd, target) - config.scrollOffset
                                      ELSE 0]
    /\ UNCHANGED <<readyState, scriptPc, styleCount, config, content, hd, native, tocs,
                   tocHTML, gen, trackers, updateTarget, scrollTop, rafQueue, frameCbs,
                   evalsThisFrame, inText, inIndex, outId>>

(***************************************************************************)
(* The page and the config object change under the script.                 *)
(***************************************************************************)
ScrollOffsets == {80, 100}

\* wikiTOCSimple.config.scrollOffset = v
SetScrollOffset ==
    /\ Idle
    /\ scriptPc # "start"
    /\ \E v \in ScrollOffsets \ {config.scrollOffset} :
          config' = [config EXCEPT !.scrollOffset = v]
    /\ last' = Step("setScrollOffset")
    /\ UNCHANGED <<readyState, scriptPc, styleCount, content, hd, native, tocs,
                   tocHTML, gen, trackers, updateTarget, scrollTop, rafQueue, frameCbs,
                   evalsThisFrame, inText, inIndex, outId>>

\* wikiTOCSimple.config.tocSelector = v
SetTocSelector ==
    /\ Idle
    /\ scriptPc # "start"
    /\ \E v \in Selectors \ {config.tocSelector} :
          config' = [config EXCEPT !.tocSelector = v]
    /\ last' = Step("setTocSelector")
    /\ UNCHANGED <<readyState, scriptPc, styleCount, content, hd, native, tocs,
                   tocHTML, gen, trackers, updateTarget, scrollTop, rafQueue, frameCbs,
                   evalsThisFrame, inText, inIndex, outId>>

\* wikiTOCSimple.config.contentSelector = v
SetContentSelector ==
    /\ Idle
    /\ scriptPc # "start"
    /\ \E v \in Selectors \ {config.contentSelector} :
          config' = [config EXCEPT !.contentSelector = v]
    /\ last' = Step("setContentSelector")
    /\ UNCHANGED <<readyState, scriptPc, styleCount, content, hd, native, tocs,
                   tocHTML, gen, trackers, updateTarget, scrollTop, rafQueue, frameCbs,
                   evalsThisFrame, inText, inIndex, outId>>

\* the page takes one of its headings out of the document
DetachHeading ==
    /\ Idle
    /\ \E i \in 1..Len(hd) :
          /\ hd[i].attached
          /\ hd' = [hd EXCEPT ![i].attached = FALSE]
    /\ last' = Step("detachHeading")
    /\ UNCHANGED <<readyState, scriptPc, styleCount, config, content, native, tocs,
                   tocHTML, gen, trackers, updateTarget, scrollTop, rafQueue, frameCbs,
                   evalsThisFrame, inText, inIndex, outId>>

(***************************************************************************)
(* Scrolling, animation frames and timers.                                 *)
(***************************************************************************)
\* positions of the page: the top, just above the second heading, and below it
ScrollPositions == {0, 400, 600}

\* the reader scrolls the page
UserScroll ==
    /\ Idle
    /\ \E y \in ScrollPositions \ {scrollTop} : scrollTop' = y
    /\ last' = Step("scroll")
    /\ UNCHANGED <<readyState, scriptPc, styleCount, config, content, hd, native, tocs,
                   tocHTML, gen, trackers, updateTarget, rafQueue, frameCbs,
                   evalsThisFrame, inText, inIndex, outId>>

\* a handleScroll that requests a callback on every scroll event
RequestedAlways(ts, k) == <<k>>

\* handleScroll of tracker k on one scroll event: the callbacks it requests
Requested(ts, k) == IF ts[k].ticking THEN <<>> ELSE <<k>>

RECURSIVE RequestedFrom(_, _)
RequestedFrom(ts, k) ==
    IF k > Len(ts) THEN <<>> ELSE Requested(ts, k) \o RequestedFrom(ts, k + 1)

\* a scroll event: every registered handleScroll runs, in registration order
ScrollEvent ==
    /\ Idle
    /\ trackers # <<>>
    /\ rafQueue' = rafQueue \o RequestedFrom(trackers, 1)
    /\ trackers' = [k \in 1..Len(trackers) |-> [trackers[k] EXCEPT !.ticking = TRUE]]
    /\ last' = Step("scrollEvent")
    /\ UNCHANGED <<readyState, scriptPc, styleCount, config, content, hd, native, tocs,
                   tocHTML, gen, updateTarget, scrollTop, frameCbs, evalsThisFrame,
                   inText, inIndex, outId>>

\* an animation frame begins: the callbacks requested so far are the ones it runs
FrameStart ==
    /\ Idle
    /\ rafQueue # <<>>
    /\ frameCbs' = rafQueue
    /\ rafQueue' = <<>>
    /\ evalsThisFrame' = 0
    /\ last' = Step("frame")
    /\ UNCHANGED <<readyState, scriptPc, styleCount, config, content, hd, native, tocs,
                   tocHTML, gen, trackers, updateTarget, scrollTop, inText, inIndex,
                   outId>>

\* the next callback of the running frame: the arrow function in handleScroll
FrameCallback ==
    /\ frameCbs # <<>>
    /\ LET k == Head(frameCbs)
       IN  /\ tocs' = Evaluated(tocs, trackers[k], hd, scrollTop, config)
           /\ trackers' = [trackers EXCEPT ![k].ticking = FALSE]
           /\ last' = EvalStep("frameCallback", k)
    /\ frameCbs' = Tail(frameCbs)
    /\ evalsThisFrame' = evalsThisFrame + 1
    /\ UNCHANGED <<readyState, scriptPc, styleCount, config, content, hd, native,
                   tocHTML, gen, updateTarget, scrollTop, rafQueue, inText, inIndex,
                   outId>>

\* the setTimeout(..., 100) of bindScrollEvents; equal delays fire in creation order
TimerFire ==
    /\ Idle
    /\ \E k \in 1..Len(trackers) :
          /\ trackers[k].timer
          /\ \A j \in 1..(k - 1) : ~trackers[j].timer
          /\ tocs' = Evaluated(tocs, trackers[k], hd, scrollTop, config)
          /\ trackers' = [trackers EXCEPT ![k].timer = FALSE]
          /\ last' = EvalStep("timer", k)
    /\ UNCHANGED <<readyState, scriptPc, styleCount, config, content, hd, native,
                   tocHTML, gen, updateTarget, scrollTop, rafQueue, frameCbs,
                   evalsThisFrame, inText, inIndex, outId>>

(***************************************************************************)
(* Initial states.                                                         *)
(***************************************************************************)
NoId == <<>>

Heading(level, text, id, hasAnchor, frag, tabset) ==
    [level |-> level, text |-> text, id |-> id, hasAnchor |-> hasAnchor,
     anchorFrag |-> frag, tabset |-> tabset, attached |-> TRUE]

\* sequences of at most n elements of S
SeqUpTo(S, n) == UNION {[1..m -> S] : m \in 0..n}

Displays == {"", "block"}

Natives == {[present |-> FALSE, display |-> ""]}
           \cup {[present |-> TRUE, display |-> d] : d \in Displays}

\* everything but the document, before the script has run
Fresh ==
    /\ scriptPc = "start"
    /\ styleCount = 0
    /\ config = DefaultConfig
    /\ tocs = <<>>
    /\ tocHTML = <<>>
    /\ gen = 0
    /\ trackers = <<>>
    /\ updateTarget = 0
    /\ scrollTop = 0
    /\ rafQueue = <<>>
    /\ frameCbs = <<>>
    /\ evalsThisFrame = 0
    /\ last = Step("none")

NoHarness ==
    /\ inText = <<>>
    /\ inIndex = 0
    /\ outId = <<"unset">>

\* pages whose headings differ in text only; equal texts are allowed
PageHeadings ==
    {Heading(2, t, NoId, FALSE, <<>>, x) :
        t \in {<<"A", "b">>, <<"c", "d">>}, x \in {"none"}}

Init ==
    /\ Fresh
    /\ NoHarness
    /\ readyState \in {"loading", "interactive"}
    /\ content \in BOOLEAN
    /\ hd \in (IF content THEN SeqUpTo(PageHeadings, MaxHeadings) ELSE {<<>>})
    /\ native \in Natives

Next ==
    \/ ScriptStart
    \/ DOMContentLoaded
    \/ Refresh
    \/ Remove
    \/ UpdateElements
    \/ UserScroll
    \/ ScrollEvent
    \/ FrameStart
    \/ FrameCallback
    \/ TimerFire

Spec == Init /\ [][Next]_vars

(***************************************************************************)
(* The public operations alone, on pages with excluded headings.           *)
(***************************************************************************)
LifeHeadings ==
    {Heading(2, t, NoId, FALSE, <<>>, x) :
        t \in {<<"A", "b">>, <<"c", "d">>}, x \in {"none", "ancestor"}}

InitLife ==
    /\ Fresh
    /\ NoHarness
    /\ readyState \in {"loading", "interactive"}
    /\ content \in BOOLEAN
    /\ hd \in (IF content THEN SeqUpTo(LifeHeadings, MaxHeadings) ELSE {<<>>})
    /\ native \in Natives

NextLife ==
    \/ ScriptStart
    \/ DOMContentLoaded
    \/ Refresh
    \/ Remove

SpecLife == InitLife /\ [][NextLife]_vars

(***************************************************************************)
(* Generation on pages whose headings vary in level, exclusion marker,     *)
(* text, id and self-anchor link.                                          *)
(***************************************************************************)
\* a text that names the position of its heading
PosText(i) == <<<<"a", "b", "c", "d", "e", "g", "h", "i", "n">>[i]>>

LevelDocs ==
    UNION {{[i \in 1..n |-> Heading(lv[i], PosText(i), NoId, FALSE, <<>>, "none")] :
               lv \in [1..n -> Levels]} : n \in 1..MaxHeadings}

TabsetDocs ==
    UNION {{[i \in 1..n |-> Heading(x[i][1], PosText(i), NoId, FALSE, <<>>, x[i][2])] :
               x \in [1..n -> {1, 6} \X {"none", "self", "ancestor"}]} :
           n \in 1..MaxHeadings}

\* "Ab" and "ab " derive the same id, "!" derives none; an id attribute "ab", a
\* self-anchor link to "#ab" or to "#", or neither
IdHeadings ==
    {Heading(2, t, a[1], a[2], a[3], "none") :
        t \in {<<"A", "b">>, <<"a", "b", " ">>, <<"!">>},
        a \in {<<NoId, FALSE, <<>>>>, <<<<"a", "b">>, FALSE, <<>>>>,
                <<NoId, TRUE, <<"a", "b">>>>, <<NoId, TRUE, <<>>>>}}

\* the page itself gives no identifier to two headings: the id attributes and the
\* fragments of the self-anchor links it came with are pairwise distinct
OwnIds(doc) ==
    \A i, j \in 1..Len(doc) :
        (i # j /\ ExistingId(doc[i]) # <<>>) => ExistingId(doc[i]) # ExistingId(doc[j])

IdDocs == {doc \in SeqUpTo(IdHeadings, MaxHeadings) : OwnIds(doc)}

InitGen ==
    /\ Fresh
    /\ NoHarness
    /\ readyState = "interactive"
    /\ content = TRUE
    /\ hd \in LevelDocs \cup TabsetDocs \cup IdDocs
    /\ native \in {[present |-> TRUE, display |-> ""], [present |-> FALSE, display |-> ""]}

NextGen ==
    \/ ScriptStart
    \/ Refresh
    \/ Remove

SpecGen == InitGen /\ [][NextGen]_vars

(***************************************************************************)
(* One generation, then clicks, scrolling, a changing scroll offset and    *)
(* headings that leave the page.                                           *)
(***************************************************************************)
ClickDocs ==
    {[i \in 1..n |-> Heading(2, PosText(i), NoId, FALSE, <<>>, "none")] :
        n \in 1..MaxHeadings}

InitClick ==
    /\ Fresh
    /\ NoHarness
    /\ readyState = "interactive"
    /\ content = TRUE
    /\ hd \in ClickDocs
    /\ native = [present |-> TRUE, display |-> ""]

NextClick ==
    \/ ScriptStart
    \/ Click
    \/ SetScrollOffset
    \/ DetachHeading
    \/ UserScroll
    \/ ScrollEvent
    \/ FrameStart
    \/ FrameCallback
    \/ TimerFire

SpecClick == InitClick /\ [][NextClick]_vars

(***************************************************************************)
(* Generations and clicks on pages whose headings vary in text, id and     *)
(* self-anchor link.                                                       *)
(***************************************************************************)
InitLink ==
    /\ Fresh
    /\ NoHarness
    /\ readyState = "interactive"
    /\ content = TRUE
    /\ hd \in IdDocs
    /\ native = [present |-> TRUE, display |-> ""]

NextLink ==
    \/ ScriptStart
    \/ Refresh
    \/ Click

SpecLink == InitLink /\ [][NextLink]_vars

(***************************************************************************)
(* The public operations while the selectors of the config and the page    *)
(* change.                                                                 *)
(***************************************************************************)
InitMut ==
    /\ Fresh
    /\ NoHarness
    /\ readyState = "interactive"
    /\ content \in BOOLEAN
    /\ hd \in (IF content THEN SeqUpTo(LifeHeadings, MaxHeadings) ELSE {<<>>})
    /\ native \in Natives

NextMut ==
    \/ ScriptStart
    \/ Refresh
    \/ Remove
    \/ SetTocSelector
    \/ SetContentSelector
    \/ DetachHeading

SpecMut == InitMut /\ [][NextMut]_vars

(***************************************************************************)
(* Scroll events and animation frames.  The browser runs the callbacks of  *)
(* requestAnimationFrame at the next frame, and runs every callback of a   *)
(* frame: both steps are weakly fair.                                      *)
(***************************************************************************)
InitFair ==
    /\ Fresh
    /\ NoHarness
    /\ readyState = "interactive"
    /\ content = TRUE
    /\ hd \in {doc \in ClickDocs : Len(doc) = 2}
    /\ native = [present |-> TRUE, display |-> ""]

NextFair ==
    \/ ScriptStart
    \/ Refresh
    \/ UserScroll
    \/ ScrollEvent
    \/ FrameStart
    \/ FrameCallback
    \/ TimerFire

SpecFair == InitFair /\ [][NextFair]_vars /\ WF_vars(FrameStart) /\ WF_vars(FrameCallback)

(***************************************************************************)
(* generateId alone, on every text of at most MaxLen characters.           *)
(***************************************************************************)
IdChars == {"A", "b", "1", "U4E2D", "_", "-", " ", "!"}

ApplyGenerateId ==
    /\ outId = <<"unset">>
    /\ outId' = generateId(inText, inIndex)
    /\ UNCHANGED <<readyState, scriptPc, styleCount, config, content, hd, native, tocs,
                   tocHTML, gen, trackers, updateTarget, scrollTop, rafQueue, frameCbs,
                   evalsThisFrame, last, inText, inIndex>>

InitId ==
    /\ Fresh
    /\ readyState = "loading"
    /\ content = FALSE
    /\ hd = <<>>
    /\ native = [present |-> FALSE, display |-> ""]
    /\ inText \in SeqUpTo(IdChars, MaxLen)
    /\ inIndex \in 0..MaxIndex
    /\ outId = <<"unset">>

NextId == ApplyGenerateId

SpecId == InitId /\ [][NextId]_vars

(***************************************************************************)
(* Properties.                                                             *)
(***************************************************************************)
GenOps == {"init", "refresh"}

EvalOps == {"frameCallback", "timer"}

\* the handles of the headings that carry no exclusion marker and have no marked
\* ancestor, in document order
RECURSIVE Unmarked(_, _)
Unmarked(doc, i) ==
    IF i > Len(doc) THEN <<>>
    ELSE IF doc[i].tabset = "none" THEN <<i>> \o Unmarked(doc, i + 1)
    ELSE Unmarked(doc, i + 1)

\* the marked entries of the document, as places <<container, entry>>
ActiveEntries == {p \in (1..Len(tocs)) \X (1..MaxHeadings + 1) : p[2] \in tocs[p[1]].active}

\* C1: after any sequence of init(), refresh() and remove() the document holds at
\* most one synthesized container; a refresh() that directly follows another
\* generation, on a page with a content region, a surviving heading and the native
\* widget, leaves exactly one container with one entry per surviving heading.
C1_AtMostOneContainer ==
    /\ Len(tocs) <= 1
    /\ (/\ last.op = "refresh"
        /\ last.prev \in GenOps
        /\ content
        /\ Unmarked(hd, 1) # <<>>
        /\ native.present)
       => /\ Len(tocs) = 1
          /\ Len(tocs[1].entries) = Len(Unmarked(hd, 1))
          /\ \A k \in 1..Len(tocs[1].entries) :
                tocs[1].entries[k].text = trim(hd[Unmarked(hd, 1)[k]].text)

C1_Witness ==
    /\ last.op = "refresh"
    /\ last.prev = "refresh"
    /\ Len(tocs) = 1
    /\ Len(tocs[1].entries) = 2
    /\ Len(hd) = 3

\* C2: remove() right after a refresh() that mounted a container (and found none
\* mounted) leaves no container and the native widget's display as it was before
\* that refresh().
C2_RemoveRestoresDisplay ==
    (last.op = "remove" /\ last.prev = "refresh" /\ last.mounted /\ last.clean)
    => (tocs = <<>> /\ native.display = last.display)

\* C3: after a scroll evaluation by a tracker with a non-empty heading list, on a
\* page with a mounted container, the active entry is the entry of the last heading
\* whose top is <= scrollTop + scrollOffset + 10, or of the first heading when no
\* heading qualifies.
C3_ActiveIsLastPassed ==
    (/\ last.op \in EvalOps
     /\ trackers[last.tracker].headings # <<>>
     /\ tocs # <<>>)
    => LET hs == trackers[last.tracker].headings
           passed == {i \in 1..Len(hs) :
                        offsetTop(hs[i]) <= scrollTop + config.scrollOffset + 10}
           expected == IF passed = {} THEN 1
                       ELSE CHOOSE i \in passed : \A j \in passed : j <= i
       IN  ActiveEntries = {<<Len(tocs), expected>>}

\* C4: at most one scroll evaluation runs per animation frame.
C4_OneEvalPerFrame == evalsThisFrame <= 1

\* C5: at most one navigation entry of the document carries the active marker.
C5_AtMostOneActive == Cardinality(ActiveEntries) <= 1

\* C6: after a generation the anchor identifiers of the navigation entries of a
\* container are pairwise distinct.
C6_DistinctAnchors ==
    \A k \in 1..Len(tocs) :
        \A i, j \in 1..Len(tocs[k].entries) :
            i # j => tocs[k].entries[i].href # tocs[k].entries[j].href

\* C7: generateId(t, i) is a non-empty string of lower-case letters, digits, CJK
\* ideographs and hyphens, with no leading or trailing hyphen and no run of two or
\* more hyphens.
C7_IdWellFormed ==
    outId # <<"unset">> =>
        /\ outId # <<>>
        /\ \A i \in 1..Len(outId) :
              outId[i] \in LowerChars \cup DigitChars \cup CjkInRange \cup {Hyphen}
        /\ outId[1] # Hyphen
        /\ outId[Len(outId)] # Hyphen
        /\ \A i \in 1..(Len(outId) - 1) : ~(outId[i] = Hyphen /\ outId[i + 1] = Hyphen)

\* C8: for a text with no letter, digit or CJK ideograph, generateId(t, i) is
\* heading-<i>.
C8_SymbolicFallback ==
    (/\ outId # <<"unset">>
     /\ \A i \in 1..Len(inText) :
           inText[i] \notin LowerChars \cup UpperChars \cup DigitChars \cup CjkInRange)
    => outId = <<"h", "e", "a", "d", "i", "n", "g", "-">> \o NatToStr(inIndex)

\* the handles of the headings without a marked ancestor, in document order
RECURSIVE NoMarkedAncestor(_, _)
NoMarkedAncestor(doc, i) ==
    IF i > Len(doc) THEN <<>>
    ELSE IF doc[i].tabset # "ancestor" THEN <<i>> \o NoMarkedAncestor(doc, i + 1)
    ELSE NoMarkedAncestor(doc, i + 1)

\* after a generation on a page with a content region, the markup, the mounted
\* container and the new tracker hold exactly the headings keep, in order
GeneratedFrom(keep) ==
    (last.op \in GenOps /\ content) =>
        /\ Len(tocHTML) = Len(keep)
        /\ \A k \in 1..Len(tocHTML) : tocHTML[k].text = trim(hd[keep[k]].text)
        /\ keep # <<>> => trackers[Len(trackers)].headings = keep
        /\ last.mounted => tocs[Len(tocs)].entries = tocHTML

C10_EntriesMirrorHeadings ==
    (last.op \in GenOps /\ content) =>
        LET hs == FilteredHeadings(hd)
        IN  /\ Len(tocHTML) = Len(hs)
            /\ \A k \in 1..Len(tocHTML) :
                  /\ tocHTML[k].text = trim(hd[hs[k]].text)
                  /\ tocHTML[k].level = hd[hs[k]].level
                  /\ tocHTML[k].indent = (hd[hs[k]].level - 1) * 12 + 5
            /\ last.mounted => tocs[Len(tocs)].entries = tocHTML

C10_Witness ==
    /\ last.op = "refresh"
    /\ last.mounted
    /\ Len(tocHTML) = 3
    /\ <<tocHTML[1].level, tocHTML[2].level, tocHTML[3].level>> = <<1, 3, 2>>
    /\ <<tocHTML[1].indent, tocHTML[2].indent, tocHTML[3].indent>> = <<5, 29, 17>>

\* the variables of the document, the script and the browser: all but the step record
state == <<readyState, scriptPc, styleCount, config, content, hd, native, tocs,
           tocHTML, gen, trackers, updateTarget, scrollTop, rafQueue, frameCbs,
           evalsThisFrame>>

\* the elements of the page that carry the id
Carriers(id) == {i \in 1..Len(hd) : hd[i].attached /\ hd[i].id = id}

\* C11: a click on an entry always has its default navigation prevented; when no
\* element of the page carries the id the entry links to, the click issues no page
\* scroll and changes nothing; when one does, the click issues exactly one page
\* scroll, to the top of that element minus config.scrollOffset.
C11_ClickScrollsOnlyToFoundTarget ==
    [][(last'.op = "click" /\ last' # last) =>
          LET href == tocs[last'.container].entries[last'.link].href
          IN  /\ last'.prevented
              /\ Carriers(href) = {} => (last'.scrolls = 0 /\ UNCHANGED state)
              /\ Carriers(href) # {} =>
                    /\ last'.scrolls = 1
                    /\ last'.target \in Carriers(href)
                    /\ last'.top = elementTop(hd, last'.target) - config.scrollOffset]_vars

\* an entry whose heading left the page was clicked
C11_Witness ==
    /\ last.op = "click"
    /\ last.prevented
    /\ last.target = 0
    /\ ~hd[last.link].attached

\* the heading a tracker with the list hs takes as current at the threshold limit
CurrentAt(hs, limit) ==
    LET passed == {i \in 1..Len(hs) : elementTop(hd, hs[i]) <= limit}
    IN  IF passed = {} THEN hs[1]
        ELSE hs[CHOOSE i \in passed : \A j \in passed : j <= i]

\* C12: the scroll offset is read when it is used: an evaluation marks the entry of
\* the last heading at or above scrollTop + config.scrollOffset + 10 with the offset
\* of the config at that moment, and a click scrolls to the top of its target minus
\* that offset, whatever the offset was when the navigation was generated.
C12_OffsetReadAtUse ==
    /\ (last.op \in EvalOps /\ tocs # <<>>) =>
          LET cur == CurrentAt(trackers[last.tracker].headings,
                               scrollTop + config.scrollOffset + 10)
          IN  tocs[1].active =
                 {j \in 1..Len(tocs[1].entries) : tocs[1].entries[j].href = hd[cur].id}
    /\ (last.op = "click" /\ last.target # 0) =>
          last.top = elementTop(hd, last.target) - config.scrollOffset

\* with the offset raised to 100 the page position 400 makes the second heading
\* current, which the offset 80 does not
C12_Witness ==
    /\ last.op \in EvalOps
    /\ config.scrollOffset = 100
    /\ scrollTop = 400
    /\ Len(hd) >= 2
    /\ hd[2].attached
    /\ tocs # <<>>
    /\ tocs[1].active = {2}

\* C13: identifier resolution is idempotent: a heading that carries an id gets an
\* entry that links to that id, and a generation on the page the previous
\* generation left behind links every entry to the same id as before.
C13_ResolutionIdempotent ==
    [][(last'.op \in GenOps /\ tocHTML' # <<>>) =>
          /\ \A k \in 1..Len(tocHTML') :
                LET h == hd[FilteredHeadings(hd)[k]]
                IN  h.id # <<>> => tocHTML'[k].href = h.id
          /\ tocHTML # <<>> =>
                /\ Len(tocHTML') = Len(tocHTML)
                /\ \A k \in 1..Len(tocHTML) : tocHTML'[k].href = tocHTML[k].href]_vars

\* a second generation met the id the first one wrote onto the first heading
C13_Witness ==
    /\ last.op = "refresh"
    /\ last.prev \in GenOps
    /\ Len(tocHTML) >= 1
    /\ hd[1].text = PosText(1)
    /\ hd[1].id = <<"a">>
    /\ tocHTML[1].href = <<"a">>

\* C14: whenever a generation ends without mounting a container (no content region,
\* no surviving heading or no native widget found), the page holds no synthesized
\* container and its native widget, if it has one, is visible.
C14_FailureLeavesNativeVisible ==
    (last.op \in GenOps /\ ~last.mounted) =>
        /\ tocs = <<>>
        /\ native.present => native.display # "none"

\* C15 as stated: no generation, started by the script or called through the public
\* operations, has run while the document is loading.
C15_NoRunWhileLoading == ~(last.op \in GenOps /\ readyState = "loading")

\* C15: the automatic start never runs while the document is loading: a script
\* evaluated before readiness waits, init() has not run while it waits, and init()
\* has run exactly once as soon as the script is past the wait.
C15_AutomaticStartDeferred ==
    /\ styleCount >= 1 => readyState # "loading"
    /\ scriptPc = "waiting" => (readyState = "loading" /\ styleCount = 0)
    /\ scriptPc = "loaded" => styleCount = 1

\* the deferred init() ran at readiness, after a refresh() called while loading
C15_Witness ==
    /\ last.op = "init"
    /\ last.prev = "refresh"
    /\ readyState = "interactive"
    /\ styleCount = 1

\* C16: remove() in a page without a synthesized container leaves the document as
\* it is, the display of the native widget included, and a remove() that follows a
\* remove() changes nothing.
C16_RemoveNoopWhenUnmounted ==
    [][/\ (last'.op = "remove" /\ tocs = <<>>) =>
             UNCHANGED <<native, tocs, hd, content>>
       /\ (last.op = "remove" /\ last'.op = "remove") =>
             UNCHANGED <<native, tocs, hd, content>>]_vars

\* C17: after a generation that mounted the navigation, every surviving heading
\* carries a non-empty id, and it is the id its entry links to.
C17_HeadingsCarryEntryIds ==
    (last.op \in GenOps /\ last.mounted) =>
        \A k \in 1..Len(tocHTML) :
            LET h == hd[FilteredHeadings(hd)[k]]
            IN  h.id # <<>> /\ h.id = tocHTML[k].href

\* C18: tocs lists the containers in document order, each inserted right before
\* the native widget, so the last one is the sibling that immediately precedes it.
\* Whenever a container is present it is the only one, the native widget exists
\* and is hidden; a generation that finds no native widget inserts no container.
C18_ContainerPrecedesHiddenNative ==
    /\ tocs # <<>> => (Len(tocs) = 1 /\ native.present /\ native.display = "none")
    /\ (last.op \in GenOps /\ ~native.present) => (~last.mounted /\ tocs = <<>>)

\* the navigation was mounted again after a remove()
C18_Witness ==
    /\ last.op = "refresh"
    /\ last.prev = "remove"
    /\ last.mounted
    /\ Len(tocs) = 1
    /\ native.display = "none"

\* the frame callbacks of tracker k that are requested and have not run yet
PendingCallbacks(k) ==
    Cardinality({i \in 1..Len(rafQueue) : rafQueue[i] = k})
    + Cardinality({i \in 1..Len(frameCbs) : frameCbs[i] = k})

\* C19: a tracker never has more than one frame callback pending, its ticking flag
\* is set exactly while one is pending (so it is clear once the callback has run),
\* and when frames are delivered every scroll event is followed by an evaluation of
\* each tracker registered at the event.
C19_OnePendingFrame ==
    /\ [](\A k \in 1..Len(trackers) :
             /\ PendingCallbacks(k) <= 1
             /\ trackers[k].ticking <=> PendingCallbacks(k) = 1)
    /\ \A k \in 1..MaxTrackers :
          (last.op = "scrollEvent" /\ k <= Len(trackers))
              ~> (last.op = "frameCallback" /\ last.tracker = k)

\* the callback of the second tracker has run and cleared its flag while nothing
\* else is pending
C19_Witness ==
    /\ last.op = "frameCallback"
    /\ last.tracker = 2
    /\ ~trackers[2].ticking
    /\ PendingCallbacks(2) = 0

\* a tracker that holds the non-excluded headings and the links the page has now
FreshLists(doc, ts) ==
    [headings |-> IF ContentFound THEN FilteredHeadings(doc) ELSE <<>>,
     tocLinks |-> AllTocLinks(ts)]

\* C20: updateElements() leaves the containers, the headings and the number of
\* trackers as they are, does nothing when there is no tracker, and after it every
\* tracker evaluates, at every page position, as a tracker does that holds the
\* headings and links present in the page at the call.
C20_UpdateElementsRefreshesEvaluations ==
    [][last'.op = "updateElements" =>
          /\ UNCHANGED <<tocs, hd, native, content>>
          /\ Len(trackers') = Len(trackers)
          /\ trackers = <<>> => trackers' = <<>>
          /\ \A k \in 1..Len(trackers') : \A y \in ScrollPositions :
                Evaluated(tocs', trackers'[k], hd', y, config')
                    = Evaluated(tocs', FreshLists(hd', tocs'), hd', y, config')]_vars

\* the largest scroll position of a panel: scrollHeight - height, 0 when negative
MaxPanelTop(c) ==
    Max(0, Layout.titleHeight + Len(c.entries) * Layout.linkHeight - Layout.panelHeight)

\* entry j of a panel scrolled to the position at lies fully inside the panel
FullyVisible(j, at) ==
    LET linkTop == Layout.titleHeight + (j - 1) * Layout.linkHeight - at
    IN  linkTop >= 0 /\ linkTop + Layout.linkHeight <= Layout.panelHeight

\* C21: an evaluation leaves the scroll position of the page as it is; it moves
\* the navigation panel only, only when the entry it marked was not fully visible
\* in the panel, and to a position between 0 and scrollHeight - height of the
\* panel (0 when that difference is negative).
C21_EvaluationScrollsPanelOnly ==
    [][last'.op \in EvalOps =>
          /\ scrollTop' = scrollTop
          /\ Len(tocs') = Len(tocs)
          /\ \A k \in 1..Len(tocs) :
                /\ tocs'[k].scrollTop \in 0..MaxPanelTop(tocs'[k])
                /\ tocs'[k].scrollTop # tocs[k].scrollTop =>
                      /\ k = 1
                      /\ \E j \in tocs'[1].active : ~FullyVisible(j, tocs[1].scrollTop)]_vars

\* an evaluation marked the third entry and moved the panel to its largest
\* position, short of the position that would show the entry with its margin
C21_Witness ==
    /\ last.op \in EvalOps
    /\ Len(tocs) = 1
    /\ Len(tocs[1].entries) = 3
    /\ tocs[1].active = {3}
    /\ tocs[1].scrollTop = MaxPanelTop(tocs[1])
    /\ tocs[1].scrollTop > 0

\* C22: a click on an entry scrolls the page, once, to the heading the entry was
\* generated from: the surviving heading at the entry's place in the page.
C22_ClickReachesOwnHeading ==
    last.op = "click" =>
        LET own == FilteredHeadings(hd)[last.link]
        IN  /\ last.scrolls = 1
            /\ last.target = own
            /\ last.top = elementTop(hd, own) - config.scrollOffset
====
